---- MODULE Spec2Model ----
(***************************************************************************)
(* Model of the FertiSmart recommendation pipeline                         *)
(* (backend/app/services/recommendation_service.py).                       *)
(*                                                                         *)
(* Units.  The soil fields N, P, K, temperature, humidity and rainfall are *)
(* carried as integers.  pH is carried in quarter units (ph = 4 * pH), so  *)
(* that every pH threshold of the code (5.5, 6.0, 6.5, 7.0, 7.5, 8.0) and  *)
(* every rate (6.5 - pH) * 500, (pH - 7.0) * 200 is exact, as it is in     *)
(* binary floating point for these inputs.  Confidences are carried in     *)
(* hundredths (0.8 is 80), the fertility score in tenths (62.5 is 625).    *)
(***************************************************************************)
EXTENDS Integers, Sequences, FiniteSets, Bags, TLC

VARIABLES
    pc,          \* position of the current request in get_recommendations
    files,       \* artifacts present under trained_models/
    soil_data,   \* the submitted soil sample
    processed,   \* result of _preprocess_input
    ml_recs,     \* result of _get_ml_recommendations
    rule_recs,   \* result of _get_rule_based_recommendations
    combined,    \* the local list `combined` after the sort
    final,       \* result of _combine_recommendations (combined[:5])
    result,      \* the value returned (or the error raised) by get_recommendations
    fn_out,      \* result of a direct call of one of the pure helpers
    log,         \* messages printed by the current get_recommendations call
    http,        \* routes.py: the request being answered and its response
    model,       \* simple_app: global `model`
    scaler,      \* simple_app: global `scaler`
    model_info,  \* simple_app: global `model_info`
    disk,        \* simple_app: crop_model.pkl and crop_scaler.pkl
    tpc,         \* simple_app: position of the running load_or_train_model call
    caller,      \* simple_app: who called load_or_train_model
    call_run,    \* simple_app: the training run started by the running call (0: none)
    runs,        \* simple_app: number of training runs started so far
    train_resp,  \* simple_app: response of the last train_model request
    ppc,         \* simple_app: position of the running predict_crop request
    payload,     \* simple_app: JSON body of the predict_crop request
    seen_scaler, \* simple_app: the object scaler.transform was called on
    seen_model,  \* simple_app: the object model.predict was called on
    predict_resp, \* simple_app: response of the last predict_crop request
    at_call      \* simple_app: globals and files as the running call found them

appVars == <<model, scaler, model_info, disk, tpc, caller, call_run, runs, train_resp,
             ppc, payload, seen_scaler, seen_model, predict_resp, at_call>>

apiVars == <<http, appVars>>

vars == <<pc, files, soil_data, processed, ml_recs, rule_recs, combined, final, result, fn_out,
          log, apiVars>>

NoValue == [none |-> TRUE]

\* A file that does not exist, and one holding bytes joblib.load cannot read.
Absent == [state |-> "absent"]

Corrupt == [state |-> "corrupt"]

\* simple_app.py has not been imported.
AppOff ==
    /\ model = NoValue
    /\ scaler = NoValue
    /\ model_info = NoValue
    /\ disk = [f \in {"crop_model.pkl", "crop_scaler.pkl"} |-> Absent]
    /\ tpc = "off"
    /\ caller = "none"
    /\ call_run = 0
    /\ runs = 0
    /\ train_resp = NoValue
    /\ ppc = "off"
    /\ payload = NoValue
    /\ seen_scaler = NoValue
    /\ seen_model = NoValue
    /\ predict_resp = NoValue
    /\ at_call = NoValue

----------------------------------------------------------------------------
(* Bounded input domains                                                   *)

feature_names == <<"N", "P", "K", "temperature", "humidity", "ph", "rainfall">>

crop_models == <<"decision_tree_crop", "naive_bayes_crop">>

Artifacts == {"decision_tree_crop", "naive_bayes_crop", "feature_scaler"}

\* Samples submitted to the whole pipeline.
PipeN == {20, 55, 100}
PipeP == {10, 45}
PipeK == {10, 45}
PipeTemperature == {20, 28}
PipeHumidity == {80, 82}
PipeRainfall == {100, 205}
PipePh == {20, 26, 34}

PipeGrid ==
    [N : PipeN, P : PipeP, K : PipeK, temperature : PipeTemperature,
     humidity : PipeHumidity, ph : PipePh, rainfall : PipeRainfall]

\* A payload that lacks a required feature.
IncompleteSample == [N |-> 55, P |-> 45, K |-> 45, temperature |-> 20, humidity |-> 80, ph |-> 26]

\* Payloads whose seven fields all lie below, or all lie above, the bounds
\* of the `ranges` table of _simple_normalize.
OutOfRangeSamples ==
    {[N |-> -8, P |-> -6, K |-> -7, temperature |-> 5, humidity |-> 20, ph |-> 12,
      rainfall |-> 10],
     [N |-> 120, P |-> 90, K |-> 90, temperature |-> 45, humidity |-> 105, ph |-> 40,
      rainfall |-> 350]}

\* A payload inside every documented range that no crop rule, deficiency
\* check or pH check matches.
UnmatchedSamples ==
    {[N |-> 55, P |-> 30, K |-> 30, temperature |-> 30, humidity |-> 50, ph |-> 26,
      rainfall |-> 100]}

\* Samples handed directly to the pure helpers: every threshold of the
\* rules and of the score has a value on each side of it, and N, P, K and
\* pH have values outside the documented ranges.
FnN == {-40, 20, 29, 30, 55, 71, 100}
FnP == {-5, 10, 19, 20, 41, 80}
FnK == {10, 24, 25, 31, 45, 80}
FnTemperature == {20, 25, 26, 28}
FnHumidity == {80, 82}
FnRainfall == {100, 150, 201}
FnPh == {12, 20, 22, 23, 24, 26, 28, 29, 30, 32, 33}

FnGrid ==
    [N : FnN, P : FnP, K : FnK, temperature : FnTemperature,
     humidity : FnHumidity, ph : FnPh, rainfall : FnRainfall]

\* What a loaded classifier can answer: a class index and, when it has
\* predict_proba, the largest class probability (in hundredths).
PredictionValues == {0, 15}
ProbaValues == {40, 95}

----------------------------------------------------------------------------
(* Small helpers                                                           *)

Min(a, b) == IF a < b THEN a ELSE b

Max(a, b) == IF a > b THEN a ELSE b

Range(s) == {s[i] : i \in 1..Len(s)}

\* a[:n]
Take(s, n) == SubSeq(s, 1, Min(n, Len(s)))

\* dict.get(key, default)
Get(rec, key, default) == IF key \in DOMAIN rec THEN rec[key] ELSE default

----------------------------------------------------------------------------
(* _preprocess_input / _simple_normalize                                   *)

\* The `ranges` table of _simple_normalize (pH bounds 4 and 9 in quarter units).
ranges ==
    [N |-> <<0, 100>>, P |-> <<0, 80>>, K |-> <<0, 80>>,
     temperature |-> <<10, 40>>, humidity |-> <<30, 100>>,
     ph |-> <<16, 36>>, rainfall |-> <<50, 300>>]

\* Variant without the clip to [0,1].
NormalizeOne_unclipped(value, min_val, max_val) ==
    [num |-> value - min_val, den |-> max_val - min_val]

\* max(0, min(1, (value - min_val) / (max_val - min_val))) as the exact
\* fraction num/den.
NormalizeOne(value, min_val, max_val) ==
    [num |-> Max(0, Min(max_val - min_val, value - min_val)),
     den |-> max_val - min_val]

_simple_normalize(features) ==
    [i \in 1..Len(features) |->
        NormalizeOne(features[i], ranges[feature_names[i]][1], ranges[feature_names[i]][2])]

\* The feature vector built by the loop of _preprocess_input.
FeatureVector(soil) == [i \in 1..Len(feature_names) |-> soil[feature_names[i]]]

MissingFeatures(soil) == {f \in Range(feature_names) : f \notin DOMAIN soil}

----------------------------------------------------------------------------
(* _get_ml_recommendations                                                 *)

crop_mapping ==
    <<"rice", "maize", "wheat", "soybean", "cotton", "chickpea", "kidneybeans",
      "pigeonpeas", "mothbeans", "mungbean", "blackgram", "lentil", "pomegranate">>

fertilizer_mapping ==
    <<"urea", "DAP", "NPK_complex", "phosphate_fertilizer", "potash_fertilizer",
      "organic_compost">>

_decode_prediction(prediction_value) ==
    [crop |-> crop_mapping[(prediction_value % Len(crop_mapping)) + 1],
     fertilizer |-> fertilizer_mapping[(prediction_value % Len(fertilizer_mapping)) + 1]]

DefaultConfidence == 80

\* What can happen to one model of crop_models: its artifact is absent
\* (skipped), loading or predicting raises, or it answers.
ModelOutcomes(model_name, present) ==
    IF model_name \notin present
    THEN {[kind |-> "absent"]}
    ELSE {[kind |-> "raise"]}
         \cup {[kind |-> "ok", prediction |-> p, has_proba |-> FALSE, max_proba |-> 0] :
                 p \in PredictionValues}
         \cup {[kind |-> "ok", prediction |-> p, has_proba |-> TRUE, max_proba |-> c] :
                 p \in PredictionValues, c \in ProbaValues}

MLRecommendation(model_name, outcome) ==
    [source |-> "ml_model",
     model |-> model_name,
     crop |-> _decode_prediction(outcome.prediction).crop,
     fertilizer |-> _decode_prediction(outcome.prediction).fertilizer,
     confidence |-> IF outcome.has_proba THEN outcome.max_proba ELSE DefaultConfidence,
     prediction_value |-> outcome.prediction]

\* The for loop over crop_models inside the try block: an exception leaves
\* the loop and the recommendations appended so far are returned.
RECURSIVE MLLoop(_, _, _)
MLLoop(outcomes, i, recommendations) ==
    IF i > Len(crop_models) THEN recommendations
    ELSE IF outcomes[i].kind = "absent" THEN MLLoop(outcomes, i + 1, recommendations)
    ELSE IF outcomes[i].kind = "raise" THEN recommendations
    ELSE MLLoop(outcomes, i + 1,
                Append(recommendations, MLRecommendation(crop_models[i], outcomes[i])))

_get_ml_recommendations(outcomes) == MLLoop(outcomes, 1, <<>>)

RECURSIVE MLRaised(_, _)
\* The except branch of _get_ml_recommendations ran (it prints and goes on).
MLRaised(outcomes, i) ==
    IF i > Len(crop_models) THEN FALSE
    ELSE IF outcomes[i].kind = "raise" THEN TRUE
    ELSE MLRaised(outcomes, i + 1)

----------------------------------------------------------------------------
(* _get_rule_based_recommendations                                         *)

\* Variant of the rice rule without the nitrogen condition.
RicePredicate_no_nitrogen(soil) == soil.humidity > 80 /\ soil.rainfall > 200

RicePredicate(soil) == soil.N > 70 /\ soil.humidity > 80 /\ soil.rainfall > 200

WheatPredicate(soil) ==
    20 <= soil.temperature /\ soil.temperature <= 25 /\ soil.ph >= 24 /\ soil.ph <= 30

MaizePredicate(soil) == soil.temperature > 25 /\ soil.N > 50 /\ soil.K > 30

SoybeanPredicate(soil) == soil.P > 40 /\ soil.ph >= 24 /\ soil.ph <= 28

CottonPredicate(soil) == soil.temperature > 27 /\ soil.K > 40 /\ soil.rainfall < 150

RiceCandidate ==
    [crop |-> "rice", fertilizer |-> "urea", confidence |-> 90,
     reason |-> "High nitrogen, humidity, and rainfall suitable for rice"]

WheatCandidate ==
    [crop |-> "wheat", fertilizer |-> "DAP", confidence |-> 80,
     reason |-> "Optimal temperature and pH range for wheat"]

MaizeCandidate ==
    [crop |-> "maize", fertilizer |-> "NPK_complex", confidence |-> 85,
     reason |-> "High temperature and balanced NPK for maize"]

SoybeanCandidate ==
    [crop |-> "soybean", fertilizer |-> "phosphate_fertilizer", confidence |-> 75,
     reason |-> "Good phosphorus levels and pH for legumes"]

CottonCandidate ==
    [crop |-> "cotton", fertilizer |-> "potash_fertilizer", confidence |-> 80,
     reason |-> "High temperature, potassium, and low rainfall for cotton"]

\* Variant with the five rules chained by elif (first match wins).
crop_recommendations_elif(soil) ==
    IF RicePredicate(soil) THEN <<RiceCandidate>>
    ELSE IF WheatPredicate(soil) THEN <<WheatCandidate>>
    ELSE IF MaizePredicate(soil) THEN <<MaizeCandidate>>
    ELSE IF SoybeanPredicate(soil) THEN <<SoybeanCandidate>>
    ELSE IF CottonPredicate(soil) THEN <<CottonCandidate>>
    ELSE <<>>

\* Five independent if statements, each appending to crop_recommendations.
crop_recommendations(soil) ==
    (IF RicePredicate(soil) THEN <<RiceCandidate>> ELSE <<>>)
    \o (IF WheatPredicate(soil) THEN <<WheatCandidate>> ELSE <<>>)
    \o (IF MaizePredicate(soil) THEN <<MaizeCandidate>> ELSE <<>>)
    \o (IF SoybeanPredicate(soil) THEN <<SoybeanCandidate>> ELSE <<>>)
    \o (IF CottonPredicate(soil) THEN <<CottonCandidate>> ELSE <<>>)

NitrogenCorrection ==
    [nutrient |-> "Nitrogen", status |-> "Deficient", fertilizer |-> "urea",
     application_rate |-> "120-150 kg/ha", priority |-> "High"]

PhosphorusCorrection ==
    [nutrient |-> "Phosphorus", status |-> "Deficient", fertilizer |-> "DAP",
     application_rate |-> "60-80 kg/ha", priority |-> "Medium"]

PotassiumCorrection ==
    [nutrient |-> "Potassium", status |-> "Deficient", fertilizer |-> "MOP",
     application_rate |-> "50-75 kg/ha", priority |-> "Medium"]

\* Variant with the three deficiency checks chained by elif.
nutrient_corrections_elif(soil) ==
    IF soil.N < 30 THEN <<NitrogenCorrection>>
    ELSE IF soil.P < 20 THEN <<PhosphorusCorrection>>
    ELSE IF soil.K < 25 THEN <<PotassiumCorrection>>
    ELSE <<>>

\* Three independent if statements.
nutrient_corrections(soil) ==
    (IF soil.N < 30 THEN <<NitrogenCorrection>> ELSE <<>>)
    \o (IF soil.P < 20 THEN <<PhosphorusCorrection>> ELSE <<>>)
    \o (IF soil.K < 25 THEN <<PotassiumCorrection>> ELSE <<>>)

\* The number printed in front of " kg/ha" in the rate string.
\* (6.5 - pH) * 500 = (26 - ph) * 125 and (pH - 7.0) * 200 = (ph - 28) * 50.
LimeRate(ph) == (26 - ph) * 125

SulfurRate(ph) == (ph - 28) * 50

LimeCorrection(ph) ==
    [issue |-> "Acidic soil", correction |-> "lime_application",
     material |-> "Agricultural lime",
     rate |-> [value |-> LimeRate(ph), unit |-> "kg/ha"],
     timing |-> "Apply 2-3 months before planting"]

SulfurCorrection(ph) ==
    [issue |-> "Alkaline soil", correction |-> "sulfur_application",
     material |-> "Elemental sulfur",
     rate |-> [value |-> SulfurRate(ph), unit |-> "kg/ha"],
     timing |-> "Apply and incorporate before planting"]

\* Variant that measures the lime rate from pH 7.0 instead of 6.5.
ph_corrections_from7(soil) ==
    IF soil.ph < 24
    THEN <<[LimeCorrection(soil.ph) EXCEPT !.rate.value = (28 - soil.ph) * 125]>>
    ELSE IF soil.ph > 32 THEN <<SulfurCorrection(soil.ph)>>
    ELSE <<>>

\* if pH < 6.0: ... elif pH > 8.0: ...
ph_corrections(soil) ==
    IF soil.ph < 24 THEN <<LimeCorrection(soil.ph)>>
    ELSE IF soil.ph > 32 THEN <<SulfurCorrection(soil.ph)>>
    ELSE <<>>

\* A missing field raises KeyError inside the try block; the except branch
\* prints and the empty list is returned.
_get_rule_based_recommendations(soil) ==
    IF MissingFeatures(soil) # {}
    THEN <<>>
    ELSE <<[source |-> "rule_based",
            crop_recommendations |-> crop_recommendations(soil),
            nutrient_corrections |-> nutrient_corrections(soil),
            ph_corrections |-> ph_corrections(soil)]>>

----------------------------------------------------------------------------
(* _combine_recommendations                                                *)

TopCount == 5

HighThreshold == 80

MLSource(model_name) ==
    IF model_name = "decision_tree_crop" THEN "ML Model (decision_tree_crop)"
    ELSE "ML Model (naive_bayes_crop)"

FromML(ml_rec) ==
    [type |-> "crop_fertilizer",
     crop |-> ml_rec.crop,
     fertilizer |-> ml_rec.fertilizer,
     confidence |-> ml_rec.confidence,
     source |-> MLSource(ml_rec.model),
     priority |-> IF ml_rec.confidence > HighThreshold THEN "High" ELSE "Medium"]

FromCropRule(crop_rec) ==
    [type |-> "crop_fertilizer",
     crop |-> crop_rec.crop,
     fertilizer |-> crop_rec.fertilizer,
     confidence |-> crop_rec.confidence,
     source |-> "Agronomic Rules",
     reason |-> crop_rec.reason,
     priority |-> IF crop_rec.confidence > HighThreshold THEN "High" ELSE "Medium"]

FromNutrientCorrection(nutrient_rec) ==
    [type |-> "nutrient_correction",
     nutrient |-> nutrient_rec.nutrient,
     fertilizer |-> nutrient_rec.fertilizer,
     application_rate |-> nutrient_rec.application_rate,
     priority |-> nutrient_rec.priority,
     source |-> "Nutrient Analysis"]

RECURSIVE FlattenRules_crops_only(_, _)
\* Variant that reads crop_recommendations only.
FlattenRules_crops_only(rule_list, i) ==
    IF i > Len(rule_list) THEN <<>>
    ELSE LET crops == Get(rule_list[i], "crop_recommendations", <<>>)
         IN  [k \in 1..Len(crops) |-> FromCropRule(crops[k])]
             \o FlattenRules_crops_only(rule_list, i + 1)

RECURSIVE FlattenRules(_, _)
\* The loop over rule_recs: crop_recommendations, then nutrient_corrections
\* of each entry; ph_corrections is not read.
FlattenRules(rule_list, i) ==
    IF i > Len(rule_list) THEN <<>>
    ELSE LET crops == Get(rule_list[i], "crop_recommendations", <<>>)
             nutrients == Get(rule_list[i], "nutrient_corrections", <<>>)
         IN  [k \in 1..Len(crops) |-> FromCropRule(crops[k])]
             \o [k \in 1..Len(nutrients) |-> FromNutrientCorrection(nutrients[k])]
             \o FlattenRules(rule_list, i + 1)

\* Variant that drops a rule entry whose crop a model already proposed.
Candidates_dedup(ml_list, rule_list) ==
    LET fromML == [k \in 1..Len(ml_list) |-> FromML(ml_list[k])]
        Fresh(x) == ~("crop" \in DOMAIN x /\ \E k \in 1..Len(fromML) : fromML[k].crop = x.crop)
    IN  fromML \o SelectSeq(FlattenRules(rule_list, 1), Fresh)

\* The list `combined` before the sort.
Candidates(ml_list, rule_list) ==
    [k \in 1..Len(ml_list) |-> FromML(ml_list[k])] \o FlattenRules(rule_list, 1)

\* The sort key (x.get('priority') == 'High', x.get('confidence', 0)).
SortKey(x) ==
    <<IF Get(x, "priority", "") = "High" THEN 1 ELSE 0, Get(x, "confidence", 0)>>

\* Variant comparing the confidence first and the priority second.
KeyGreater_confidence_first(a, b) ==
    \/ a[2] > b[2]
    \/ a[2] = b[2] /\ a[1] > b[1]

\* Tuple comparison a > b of two sort keys.
KeyGreater(a, b) ==
    \/ a[1] > b[1]
    \/ a[1] = b[1] /\ a[2] > b[2]

RECURSIVE InsertStable_ascending(_, _, _)
\* Variant for a sort without reverse=True: x goes in front of the first
\* element whose key is greater than x's.
InsertStable_ascending(x, sorted, i) ==
    IF i > Len(sorted) THEN Append(sorted, x)
    ELSE IF KeyGreater(SortKey(sorted[i]), SortKey(x))
         THEN SubSeq(sorted, 1, i - 1) \o <<x>> \o SubSeq(sorted, i, Len(sorted))
         ELSE InsertStable_ascending(x, sorted, i + 1)

RECURSIVE InsertStable(_, _, _)
\* Places x behind every element of the sorted list whose key is not
\* smaller than x's: list.sort is stable, also with reverse=True.
InsertStable(x, sorted, i) ==
    IF i > Len(sorted) THEN Append(sorted, x)
    ELSE IF KeyGreater(SortKey(x), SortKey(sorted[i]))
         THEN SubSeq(sorted, 1, i - 1) \o <<x>> \o SubSeq(sorted, i, Len(sorted))
         ELSE InsertStable(x, sorted, i + 1)

RECURSIVE SortDescending(_, _, _)
SortDescending(list, i, sorted) ==
    IF i > Len(list) THEN sorted
    ELSE SortDescending(list, i + 1, InsertStable(list[i], sorted, 1))

\* combined.sort(key=..., reverse=True)
SortedCandidates(ml_list, rule_list) ==
    SortDescending(Candidates(ml_list, rule_list), 1, <<>>)

\* Variant returning the whole sorted list.
_combine_recommendations_uncapped(ml_list, rule_list) ==
    SortedCandidates(ml_list, rule_list)

_combine_recommendations(ml_list, rule_list) ==
    Take(SortedCandidates(ml_list, rule_list), TopCount)

----------------------------------------------------------------------------
(* _calculate_fertility_score / _get_overall_condition /                   *)
(* _analyze_soil_condition                                                 *)

\* round(x, 1) in tenths: the nearest integer of num/den.  At an exact tie
\* Python rounds the binary value of the sum, which lies on one side or the
\* other of the tie; the sample domains leave such samples out (ScoreIsTie),
\* so the last branch is not exercised.
RoundHalfEven(num, den) ==
    LET f == num \div den
        r == num % den
    IN  IF 2 * r < den THEN f
        ELSE IF 2 * r > den THEN f + 1
        ELSE IF f % 2 = 0 THEN f ELSE f + 1

\* Variant whose 0.8 band reaches down to pH 5.5 and up to pH 8.0.
ph_score_wide(ph) ==
    IF 26 <= ph /\ ph <= 28 THEN 100
    ELSE IF (22 <= ph /\ ph < 26) \/ (28 < ph /\ ph <= 32) THEN 80
    ELSE 30

\* The if/elif chain setting ph_score, in hundredths.
ph_score(ph) ==
    IF 26 <= ph /\ ph <= 28 THEN 100
    ELSE IF (24 <= ph /\ ph < 26) \/ (28 < ph /\ ph <= 30) THEN 80
    ELSE IF (22 <= ph /\ ph < 24) \/ (30 < ph /\ ph <= 32) THEN 60
    ELSE 30

\* Variant without the min(..., 1.0) caps.
ScoreNumerator_uncapped(soil) ==
    315 * soil.N + 350 * soil.P + 300 * soil.K + 168 * ph_score(soil.ph)

\* Ten times the weighted average, over the common denominator 84:
\* 10 * 100 * (0.3 * min(N/80, 1) + 0.25 * min(P/60, 1) + 0.25 * min(K/70, 1)
\*             + 0.2 * ph_score)
\*   = (315 * min(N, 80) + 350 * min(P, 60) + 300 * min(K, 70)
\*      + 168 * ph_score_in_hundredths) / 84.
ScoreNumerator(soil) ==
    315 * Min(soil.N, 80) + 350 * Min(soil.P, 60) + 300 * Min(soil.K, 70)
    + 168 * ph_score(soil.ph)

ScoreDenominator == 84

\* The exact weighted sum lies halfway between two tenths.
ScoreIsTie(soil) == 2 * (ScoreNumerator(soil) % ScoreDenominator) = ScoreDenominator

\* Variant that adds five points in a wet season.
_calculate_fertility_score_rain_adjusted(soil) ==
    IF {"N", "P", "K", "ph"} \subseteq DOMAIN soil
    THEN RoundHalfEven(ScoreNumerator(soil), ScoreDenominator)
            + (IF Get(soil, "rainfall", 0) > 200 THEN 50 ELSE 0)
    ELSE 0

\* The score in tenths; the except branch returns 0.0.
_calculate_fertility_score(soil) ==
    IF {"N", "P", "K", "ph"} \subseteq DOMAIN soil
    THEN RoundHalfEven(ScoreNumerator(soil), ScoreDenominator)
    ELSE 0

\* Variant that rates 'Excellent' from 70 on.
_get_overall_condition_from70(fertility_score) ==
    IF fertility_score >= 700 THEN "Excellent"
    ELSE IF fertility_score >= 600 THEN "Good"
    ELSE IF fertility_score >= 400 THEN "Fair"
    ELSE "Poor"

_get_overall_condition(fertility_score) ==
    IF fertility_score >= 800 THEN "Excellent"
    ELSE IF fertility_score >= 600 THEN "Good"
    ELSE IF fertility_score >= 400 THEN "Fair"
    ELSE "Poor"

\* Variant that leaves the qualitative label out of the analysis.
_analyze_soil_condition_no_label(soil) ==
    IF {"N", "P", "K", "ph"} \subseteq DOMAIN soil
    THEN [nutrient_status |->
             [nitrogen |-> IF soil.N < 30 THEN "Low"
                           ELSE IF soil.N < 60 THEN "Medium" ELSE "High",
              phosphorus |-> IF soil.P < 20 THEN "Low"
                             ELSE IF soil.P < 40 THEN "Medium" ELSE "High",
              potassium |-> IF soil.K < 25 THEN "Low"
                            ELSE IF soil.K < 50 THEN "Medium" ELSE "High"],
          ph_status |-> IF soil.ph < 24 THEN "Acidic"
                        ELSE IF soil.ph > 32 THEN "Alkaline" ELSE "Neutral",
          fertility_score |-> _calculate_fertility_score(soil)]
    ELSE [error |-> "Soil analysis failed"]

_analyze_soil_condition(soil) ==
    IF {"N", "P", "K", "ph"} \subseteq DOMAIN soil
    THEN [nutrient_status |->
             [nitrogen |-> IF soil.N < 30 THEN "Low"
                           ELSE IF soil.N < 60 THEN "Medium" ELSE "High",
              phosphorus |-> IF soil.P < 20 THEN "Low"
                             ELSE IF soil.P < 40 THEN "Medium" ELSE "High",
              potassium |-> IF soil.K < 25 THEN "Low"
                            ELSE IF soil.K < 50 THEN "Medium" ELSE "High"],
          ph_status |-> IF soil.ph < 24 THEN "Acidic"
                        ELSE IF soil.ph > 32 THEN "Alkaline" ELSE "Neutral",
          fertility_score |-> _calculate_fertility_score(soil),
          overall_condition |-> _get_overall_condition(_calculate_fertility_score(soil))]
    ELSE [error |-> "Soil analysis failed"]

----------------------------------------------------------------------------
(* _add_explanations                                                       *)

\* str.lower() on the nutrient names the rule engine produces.
Lower(name) ==
    IF name = "Nitrogen" THEN "nitrogen"
    ELSE IF name = "Phosphorus" THEN "phosphorus"
    ELSE IF name = "Potassium" THEN "potassium"
    ELSE name

\* Variant that only knows the crop_fertilizer kind.
_generate_explanation_crop_only(recommendation, soil) ==
    IF recommendation.type = "crop_fertilizer"
    THEN <<"Based on your soil's NPK levels (", ToString(soil.N), "-", ToString(soil.P),
           "-", ToString(soil.K), ") and environmental conditions, ",
           recommendation.crop, " is suitable for cultivation with ",
           recommendation.fertilizer, " fertilizer.">>
    ELSE <<>>

\* The explanation text, as the sequence of the pieces the f-string joins.
_generate_explanation(recommendation, soil) ==
    IF recommendation.type = "crop_fertilizer"
    THEN <<"Based on your soil's NPK levels (", ToString(soil.N), "-", ToString(soil.P),
           "-", ToString(soil.K), ") and environmental conditions, ",
           recommendation.crop, " is suitable for cultivation with ",
           recommendation.fertilizer, " fertilizer.">>
    ELSE IF recommendation.type = "nutrient_correction"
    THEN <<"Your soil shows ", Lower(recommendation.nutrient), " deficiency. Applying ",
           recommendation.fertilizer, " will help correct this imbalance.">>
    ELSE <<"Recommendation based on soil analysis results.">>

_get_benefits(recommendation) ==
    IF recommendation.type = "crop_fertilizer"
    THEN <<"Optimized crop yield", "Efficient nutrient utilization",
           "Improved soil health", "Cost-effective farming">>
    ELSE IF recommendation.type = "nutrient_correction"
    THEN <<"Corrected nutrient deficiency", "Enhanced plant growth",
           "Better root development", "Improved disease resistance">>
    ELSE <<>>

_get_precautions(recommendation) ==
    <<"Follow recommended application rates", "Apply fertilizer at appropriate timing",
      "Consider weather conditions", "Monitor soil moisture levels">>
    \o (IF Get(recommendation, "fertilizer", "") = "urea"
        THEN <<"Apply urea when soil moisture is adequate">> ELSE <<>>)

\* {**rec, 'explanation': ..., 'benefits': ..., 'precautions': ...}
Explain(rec, soil) ==
    [k \in DOMAIN rec \cup {"explanation", "benefits", "precautions"} |->
        IF k = "explanation" THEN _generate_explanation(rec, soil)
        ELSE IF k = "benefits" THEN _get_benefits(rec)
        ELSE IF k = "precautions" THEN _get_precautions(rec)
        ELSE rec[k]]

_add_explanations(recommendations, soil) ==
    [i \in 1..Len(recommendations) |-> Explain(recommendations[i], soil)]

\* The samples of the two specifications.
PipeSamples == {s \in PipeGrid \cup OutOfRangeSamples \cup UnmatchedSamples : ~ScoreIsTie(s)} \cup {IncompleteSample}

FnSamples == {s \in FnGrid : ~ScoreIsTie(s)}

_get_application_guidelines == "application_guidelines (static table)"

_predict_outcomes == "expected_outcomes (static table)"

----------------------------------------------------------------------------
(* get_recommendations, one request at a time                              *)

Init ==
    /\ pc = "idle"
    /\ files \in SUBSET Artifacts
    /\ soil_data = NoValue
    /\ processed = NoValue
    /\ ml_recs = NoValue
    /\ rule_recs = NoValue
    /\ combined = NoValue
    /\ final = NoValue
    /\ result = NoValue
    /\ fn_out = NoValue
    /\ log = {}
    /\ http = NoValue
    /\ AppOff

\* A caller invokes get_recommendations(soil_data).
Submit(sample) ==
    /\ pc = "idle"
    /\ soil_data' = sample
    /\ pc' = "preprocess"
    /\ UNCHANGED <<files, processed, ml_recs, rule_recs, combined, final, result, fn_out>>
    /\ UNCHANGED <<log, apiVars>>

\* Variant that looks for missing features only on the fallback path, when
\* no scaler artifact exists.
Preprocess_check_on_fallback ==
    /\ pc = "preprocess"
    /\ \/ /\ "feature_scaler" \in files
          /\ \/ /\ processed' = [kind |-> "scaled", features |-> <<>>]
                /\ pc' = "ml"
                /\ UNCHANGED result
             \/ /\ result' = [error |-> "Recommendation generation failed: Input preprocessing failed"]
                /\ pc' = "failed"
                /\ UNCHANGED processed
       \/ /\ "feature_scaler" \notin files
          /\ MissingFeatures(soil_data) # {}
          /\ result' = [error |-> "Recommendation generation failed: Input preprocessing failed"]
          /\ pc' = "failed"
          /\ UNCHANGED processed
       \/ /\ "feature_scaler" \notin files
          /\ MissingFeatures(soil_data) = {}
          /\ processed' = [kind |-> "simple", features |-> _simple_normalize(FeatureVector(soil_data))]
          /\ pc' = "ml"
          /\ UNCHANGED result
    /\ UNCHANGED <<files, soil_data, ml_recs, rule_recs, combined, final, fn_out>>
    /\ UNCHANGED <<log, apiVars>>

\* processed_data = self._preprocess_input(soil_data)
\* A missing feature or a failing scaler raises; get_recommendations wraps
\* the exception and raises it to the caller.
Preprocess ==
    /\ pc = "preprocess"
    /\ \/ /\ MissingFeatures(soil_data) # {}
          /\ result' = [error |-> "Recommendation generation failed: Input preprocessing failed"]
          /\ pc' = "failed"
          /\ UNCHANGED processed
       \/ /\ MissingFeatures(soil_data) = {}
          /\ "feature_scaler" \in files
          /\ \/ /\ processed' = [kind |-> "scaled", features |-> FeatureVector(soil_data)]
                /\ pc' = "ml"
                /\ UNCHANGED result
             \/ /\ result' = [error |-> "Recommendation generation failed: Input preprocessing failed"]
                /\ pc' = "failed"
                /\ UNCHANGED processed
       \/ /\ MissingFeatures(soil_data) = {}
          /\ "feature_scaler" \notin files
          /\ processed' = [kind |-> "simple", features |-> _simple_normalize(FeatureVector(soil_data))]
          /\ pc' = "ml"
          /\ UNCHANGED result
    /\ UNCHANGED <<files, soil_data, ml_recs, rule_recs, combined, final, fn_out>>
    /\ UNCHANGED <<log, apiVars>>

\* Variant that deletes an artifact it could not load or use.
GetML_drop_unreadable ==
    /\ pc = "ml"
    /\ \E o1 \in ModelOutcomes(crop_models[1], files), o2 \in ModelOutcomes(crop_models[2], files) :
          /\ ml_recs' = _get_ml_recommendations(<<o1, o2>>)
          /\ log' = IF MLRaised(<<o1, o2>>, 1) THEN log \cup {"ML recommendation failed"} ELSE log
          /\ files' = files \ {crop_models[i] : i \in {j \in 1..2 : <<o1, o2>>[j].kind = "raise"}}
    /\ pc' = "rules"
    /\ UNCHANGED <<soil_data, processed, rule_recs, combined, final, result, fn_out>>
    /\ UNCHANGED apiVars

\* ml_recommendations = self._get_ml_recommendations(processed_data)
GetML ==
    /\ pc = "ml"
    /\ \E o1 \in ModelOutcomes(crop_models[1], files), o2 \in ModelOutcomes(crop_models[2], files) :
          /\ ml_recs' = _get_ml_recommendations(<<o1, o2>>)
          /\ log' = IF MLRaised(<<o1, o2>>, 1) THEN log \cup {"ML recommendation failed"} ELSE log
    /\ pc' = "rules"
    /\ UNCHANGED <<files, soil_data, processed, rule_recs, combined, final, result, fn_out>>
    /\ UNCHANGED apiVars

\* rule_based_recommendations = self._get_rule_based_recommendations(soil_data)
GetRules ==
    /\ pc = "rules"
    /\ rule_recs' = _get_rule_based_recommendations(soil_data)
    /\ log' = IF MissingFeatures(soil_data) # {}
              THEN log \cup {"Rule-based recommendation failed"} ELSE log
    /\ pc' = "combine"
    /\ UNCHANGED <<files, soil_data, processed, ml_recs, combined, final, result, fn_out>>
    /\ UNCHANGED apiVars

\* final_recommendations = self._combine_recommendations(...)
Combine ==
    /\ pc = "combine"
    /\ combined' = SortedCandidates(ml_recs, rule_recs)
    /\ final' = _combine_recommendations(ml_recs, rule_recs)
    /\ pc' = "explain"
    /\ UNCHANGED <<files, soil_data, processed, ml_recs, rule_recs, result, fn_out>>
    /\ UNCHANGED <<log, apiVars>>

\* detailed_recommendations = self._add_explanations(...) and the return.
Respond ==
    /\ pc = "explain"
    /\ result' = [soil_analysis |-> _analyze_soil_condition(soil_data),
                  recommendations |-> _add_explanations(final, soil_data),
                  application_guidelines |-> _get_application_guidelines,
                  expected_outcomes |-> _predict_outcomes,
                  timestamp |-> "utcnow"]
    /\ pc' = "done"
    /\ UNCHANGED <<files, soil_data, processed, ml_recs, rule_recs, combined, final, fn_out>>
    /\ UNCHANGED <<log, apiVars>>

\* The call has returned or raised; its locals are gone.
Finish ==
    /\ pc \in {"done", "failed"}
    /\ pc' = "idle"
    /\ soil_data' = NoValue
    /\ processed' = NoValue
    /\ ml_recs' = NoValue
    /\ rule_recs' = NoValue
    /\ combined' = NoValue
    /\ final' = NoValue
    /\ result' = NoValue
    /\ log' = {}
    /\ UNCHANGED <<files, fn_out>>
    /\ UNCHANGED apiVars

Next ==
    \/ \E sample \in PipeSamples : Submit(sample)
    \/ Preprocess
    \/ GetML
    \/ GetRules
    \/ Combine
    \/ Respond
    \/ Finish

Spec == Init /\ [][Next]_vars

----------------------------------------------------------------------------
(* The rule engine, the scorer and the soil analysis called directly       *)

InitFn ==
    /\ pc = "fn"
    /\ files = {}
    /\ soil_data \in FnSamples
    /\ processed = NoValue
    /\ ml_recs = NoValue
    /\ rule_recs = NoValue
    /\ combined = NoValue
    /\ final = NoValue
    /\ result = NoValue
    /\ fn_out = NoValue
    /\ log = {}
    /\ http = NoValue
    /\ AppOff

CallRules ==
    /\ pc = "fn"
    /\ fn_out' = [call |-> "rules", value |-> _get_rule_based_recommendations(soil_data)]
    /\ pc' = "fn_done"
    /\ UNCHANGED <<files, soil_data, processed, ml_recs, rule_recs, combined, final, result>>
    /\ UNCHANGED <<log, apiVars>>

CallScore ==
    /\ pc = "fn"
    /\ fn_out' = [call |-> "score",
                  value |-> _calculate_fertility_score(soil_data),
                  condition |-> _get_overall_condition(_calculate_fertility_score(soil_data))]
    /\ pc' = "fn_done"
    /\ UNCHANGED <<files, soil_data, processed, ml_recs, rule_recs, combined, final, result>>
    /\ UNCHANGED <<log, apiVars>>

CallAnalyze ==
    /\ pc = "fn"
    /\ fn_out' = [call |-> "analyze", value |-> _analyze_soil_condition(soil_data)]
    /\ pc' = "fn_done"
    /\ UNCHANGED <<files, soil_data, processed, ml_recs, rule_recs, combined, final, result>>
    /\ UNCHANGED <<log, apiVars>>

NextFn ==
    \/ CallRules
    \/ CallScore
    \/ CallAnalyze

SpecFn == InitFn /\ [][NextFn]_vars

----------------------------------------------------------------------------
(* Properties of the fuser (specification Spec)                            *)

Fused == pc \in {"explain", "done"}

Returned == pc = "done"

Indices(s) == 1..Len(s)

\* C1: the list returned by _combine_recommendations, and the
\* 'recommendations' list of get_recommendations, has at most 5 elements.
C1_AtMostFive ==
    /\ Fused => Len(final) <= 5
    /\ Returned => Len(result.recommendations) <= 5

\* More than five candidates were fused and five were returned.
C1_Witness ==
    /\ Returned
    /\ Len(Candidates(ml_recs, rule_recs)) > 5
    /\ Len(result.recommendations) = 5

\* C2: every element of the fused list carries a confidence in [0,1]
\* (0..100 hundredths), whether it comes from a model, from a crop rule or
\* from a nutrient correction.
C2_ConfidenceInUnitInterval ==
    Fused => \A i \in Indices(final) :
                /\ "confidence" \in DOMAIN final[i]
                /\ 0 <= final[i].confidence
                /\ final[i].confidence <= 100

\* The rank the claim orders by: High before Medium, then the confidence
\* (an element without a confidence ranks as confidence 0).
IsHigh(x) == "priority" \in DOMAIN x /\ x.priority = "High"

ConfidenceOf(x) == IF "confidence" \in DOMAIN x THEN x.confidence ELSE 0

RanksStrictlyHigher(a, b) ==
    \/ IsHigh(a) /\ ~IsHigh(b)
    \/ (IsHigh(a) <=> IsHigh(b)) /\ ConfidenceOf(a) > ConfidenceOf(b)

SeqToBag(s) == [x \in Range(s) |-> Cardinality({i \in Indices(s) : s[i] = x})]

\* The candidates that are not in the output, with their multiplicity.
LeftOut == SeqToBag(Candidates(ml_recs, rule_recs)) (-) SeqToBag(final)

\* C3: the output is the first 5 of all candidates ordered by priority (High
\* before Medium) and then by non-increasing confidence: it is made of
\* candidates, it has min(5, number of candidates) elements, it is ordered,
\* and no candidate left out ranks strictly higher than one that is in it.
C3_TopFiveByPriorityThenConfidence ==
    Fused =>
        /\ Len(final) = Min(5, Len(Candidates(ml_recs, rule_recs)))
        /\ SeqToBag(final) \sqsubseteq SeqToBag(Candidates(ml_recs, rule_recs))
        /\ \A i, j \in Indices(final) : i < j => ~RanksStrictlyHigher(final[j], final[i])
        /\ \A e \in BagToSet(LeftOut) : \A i \in Indices(final) :
              ~RanksStrictlyHigher(e, final[i])

\* A candidate was cut off, and the output mixes both priorities and holds
\* a High element whose confidence is below that of a Medium element.
C3_Witness ==
    /\ Fused
    /\ BagToSet(LeftOut) # {}
    /\ \E i, j \in Indices(final) :
          /\ IsHigh(final[i])
          /\ ~IsHigh(final[j])
          /\ ConfidenceOf(final[i]) < ConfidenceOf(final[j])

IsNonEmptyText(t) == Len(t) > 0 /\ \E i \in Indices(t) : t[i] # ""

\* C4: every recommendation returned by get_recommendations carries a
\* non-empty explanation, whatever its kind and its source.
C4_NonEmptyRationale ==
    Returned => \A i \in Indices(result.recommendations) :
                   /\ "explanation" \in DOMAIN result.recommendations[i]
                   /\ IsNonEmptyText(result.recommendations[i].explanation)

\* A response holding a model element, a rule element and a nutrient correction.
C4_Witness ==
    /\ Returned
    /\ \E i, j, k \in Indices(result.recommendations) :
          /\ result.recommendations[i].source = "Agronomic Rules"
          /\ result.recommendations[j].type = "nutrient_correction"
          /\ result.recommendations[k].source = MLSource("naive_bayes_crop")

\* An element of the fused candidates made from the pH correction c.
MadeFromPhCorrection(x, c) ==
    \/ "correction" \in DOMAIN x /\ x.correction = c.correction
    \/ "material" \in DOMAIN x /\ x.material = c.material
    \/ "fertilizer" \in DOMAIN x /\ x.fertilizer \in {c.correction, c.material}
    \/ "nutrient" \in DOMAIN x /\ x.nutrient \in {"pH", c.issue}

\* C10: whenever pH < 6.0 or pH > 8.0, the pH correction produced by the
\* rule engine is among the candidates that _combine_recommendations sorts
\* and truncates, as the N, P and K corrections are.
C10_PhCorrectionIsCandidate ==
    (Fused /\ (soil_data.ph < 24 \/ soil_data.ph > 32)) =>
        /\ Len(rule_recs[1].ph_corrections) = 1
        /\ \E i \in Indices(combined) :
              MadeFromPhCorrection(combined[i], rule_recs[1].ph_corrections[1])

----------------------------------------------------------------------------
(* Properties of the scorer and of the rule engine (specification SpecFn)  *)

Scored == pc = "fn_done" /\ fn_out.call = "score"

RulesEvaluated == pc = "fn_done" /\ fn_out.call = "rules"

\* The documented ranges: N in [0,100], P in [0,80], K in [0,80], pH in [4,9].
InDocumentedRange(soil) ==
    /\ 0 <= soil.N /\ soil.N <= 100
    /\ 0 <= soil.P /\ soil.P <= 80
    /\ 0 <= soil.K /\ soil.K <= 80
    /\ 16 <= soil.ph /\ soil.ph <= 36

\* C5: for a sample in the documented ranges the score lies in [0,100]
\* (0..1000 tenths) and the label is Excellent from 80, Good from 60, Fair
\* from 40 and Poor below.
C5_ScoreRangeAndLabel ==
    (Scored /\ InDocumentedRange(soil_data)) =>
        /\ 0 <= fn_out.value /\ fn_out.value <= 1000
        /\ fn_out.condition \in {"Excellent", "Good", "Fair", "Poor"}
        /\ fn_out.condition = "Excellent" <=> fn_out.value >= 800
        /\ fn_out.condition = "Good" <=> (600 <= fn_out.value /\ fn_out.value < 800)
        /\ fn_out.condition = "Fair" <=> (400 <= fn_out.value /\ fn_out.value < 600)
        /\ fn_out.condition = "Poor" <=> fn_out.value < 400

\* A sample in the documented ranges scored 100.0.
C5_Witness ==
    /\ Scored
    /\ InDocumentedRange(soil_data)
    /\ fn_out.value = 1000
    /\ fn_out.condition = "Excellent"

\* The pH quality q of the claim, in tenths.
ClaimQ(ph) ==
    IF 26 <= ph /\ ph <= 28 THEN 10
    ELSE IF (24 <= ph /\ ph < 26) \/ (28 < ph /\ ph <= 30) THEN 8
    ELSE IF (22 <= ph /\ ph < 24) \/ (30 < ph /\ ph <= 32) THEN 6
    ELSE 3

ClaimCapped(value, optimum) == IF value < optimum THEN value ELSE optimum

\* 1680 * 10 * 100 * (0.30 * min(N/80,1) + 0.25 * min(P/60,1)
\*                    + 0.25 * min(K/70,1) + 0.20 * q)
ClaimScoreTimes16800(soil) ==
    6300 * ClaimCapped(soil.N, 80) + 7000 * ClaimCapped(soil.P, 60)
    + 6000 * ClaimCapped(soil.K, 70) + 33600 * ClaimQ(soil.ph)

\* C6: the score is 100 * (0.30*min(N/80,1) + 0.25*min(P/60,1)
\* + 0.25*min(K/70,1) + 0.20*q) rounded to one decimal: the returned tenth is
\* the one nearest to that sum.
C6_ScoreFormula ==
    Scored =>
        /\ 2 * (1680 * fn_out.value - ClaimScoreTimes16800(soil_data)) < 1680
        /\ 2 * (ClaimScoreTimes16800(soil_data) - 1680 * fn_out.value) < 1680

\* A sample scored in the 0.6 band of the pH quality, below the N optimum.
C6_Witness ==
    /\ Scored
    /\ ClaimQ(soil_data.ph) = 6
    /\ soil_data.N < 80
    /\ soil_data.P > 60

CropRulesOut == fn_out.value[1].crop_recommendations

HasCrop(crop) == \E i \in Indices(CropRulesOut) : CropRulesOut[i].crop = crop

\* C7: each of the five crop rules contributes its candidate exactly when
\* its own predicate holds, whatever the other rules do; N > 70, humidity >
\* 80 and rainfall > 200 yields a rice/urea candidate with confidence 0.9.
C7_CropRulesIndependent ==
    RulesEvaluated =>
        /\ Len(fn_out.value) = 1
        /\ HasCrop("rice") <=> RicePredicate(soil_data)
        /\ HasCrop("wheat") <=> WheatPredicate(soil_data)
        /\ HasCrop("maize") <=> MaizePredicate(soil_data)
        /\ HasCrop("soybean") <=> SoybeanPredicate(soil_data)
        /\ HasCrop("cotton") <=> CottonPredicate(soil_data)
        /\ (soil_data.N > 70 /\ soil_data.humidity > 80 /\ soil_data.rainfall > 200) =>
              \E i \in Indices(CropRulesOut) :
                  /\ CropRulesOut[i].crop = "rice"
                  /\ CropRulesOut[i].fertilizer = "urea"
                  /\ CropRulesOut[i].confidence = 90

\* The rice rule and two more rules fired on the same sample.
C7_Witness ==
    /\ RulesEvaluated
    /\ HasCrop("rice")
    /\ HasCrop("wheat")
    /\ HasCrop("soybean")

NutrientOut == fn_out.value[1].nutrient_corrections

HasCorrection(nutrient, fertilizer, rate, priority) ==
    \E i \in Indices(NutrientOut) :
        /\ NutrientOut[i].nutrient = nutrient
        /\ NutrientOut[i].fertilizer = fertilizer
        /\ NutrientOut[i].application_rate = rate
        /\ NutrientOut[i].priority = priority

HasNutrient(nutrient) == \E i \in Indices(NutrientOut) : NutrientOut[i].nutrient = nutrient

\* C8: a Nitrogen correction (urea, "120-150 kg/ha", High) exactly when
\* N < 30, a Phosphorus correction (DAP, "60-80 kg/ha", Medium) exactly when
\* P < 20, a Potassium correction (MOP, "50-75 kg/ha", Medium) exactly when
\* K < 25, independently of one another.
C8_DeficiencyChecks ==
    RulesEvaluated =>
        /\ HasNutrient("Nitrogen") <=> soil_data.N < 30
        /\ HasNutrient("Phosphorus") <=> soil_data.P < 20
        /\ HasNutrient("Potassium") <=> soil_data.K < 25
        /\ soil_data.N < 30 => HasCorrection("Nitrogen", "urea", "120-150 kg/ha", "High")
        /\ soil_data.P < 20 => HasCorrection("Phosphorus", "DAP", "60-80 kg/ha", "Medium")
        /\ soil_data.K < 25 => HasCorrection("Potassium", "MOP", "50-75 kg/ha", "Medium")
        /\ Len(NutrientOut) <= 3

\* All three deficiency checks fired on the same sample.
C8_Witness ==
    /\ RulesEvaluated
    /\ soil_data.N < 30 /\ soil_data.P < 20 /\ soil_data.K < 25
    /\ Len(NutrientOut) = 3

PhOut == fn_out.value[1].ph_corrections

\* C9: for pH < 6.0 exactly one pH correction, lime_application at
\* (6.5 - pH) * 500 kg/ha (750 at pH 5.0); for pH > 8.0 exactly one,
\* sulfur_application at (pH - 7.0) * 200 kg/ha; none for 6.0 <= pH <= 8.0.
\* With ph = 4 * pH the rates are 4 * rate = (26 - ph) * 500 and
\* 4 * rate = (ph - 28) * 200.
C9_PhCorrections ==
    RulesEvaluated =>
        /\ soil_data.ph < 24 =>
              /\ Len(PhOut) = 1
              /\ PhOut[1].correction = "lime_application"
              /\ 4 * PhOut[1].rate.value = (26 - soil_data.ph) * 500
              /\ PhOut[1].rate.unit = "kg/ha"
        /\ soil_data.ph = 20 => PhOut[1].rate.value = 750
        /\ soil_data.ph > 32 =>
              /\ Len(PhOut) = 1
              /\ PhOut[1].correction = "sulfur_application"
              /\ 4 * PhOut[1].rate.value = (soil_data.ph - 28) * 200
              /\ PhOut[1].rate.unit = "kg/ha"
        /\ (24 <= soil_data.ph /\ soil_data.ph <= 32) => Len(PhOut) = 0

\* The rule engine answered a sample of pH 5.0 with a lime correction.
C9_Witness ==
    /\ RulesEvaluated
    /\ soil_data.ph = 20
    /\ Len(PhOut) = 1
    /\ PhOut[1].correction = "lime_application"

----------------------------------------------------------------------------
(* Properties of get_recommendations as a whole (specification Spec)       *)

RuleCrops == rule_recs[1].crop_recommendations

RuleNutrients == rule_recs[1].nutrient_corrections

\* C11: the fuser does not deduplicate: every model candidate is in the
\* candidate list tagged "ML Model (<model name>)", every rule candidate is
\* in it tagged "Agronomic Rules", also when both name the same crop (two
\* entries), and only the top-5 truncation removes entries.
C11_NoDeduplication ==
    Fused =>
        /\ Len(rule_recs) = 1
        /\ Len(combined) = Len(ml_recs) + Len(RuleCrops) + Len(RuleNutrients)
        /\ \A i \in Indices(ml_recs) : \E j \in Indices(combined) :
              /\ combined[j].source = MLSource(ml_recs[i].model)
              /\ combined[j].crop = ml_recs[i].crop
        /\ \A i \in Indices(RuleCrops) : \E j \in Indices(combined) :
              /\ combined[j].source = "Agronomic Rules"
              /\ combined[j].crop = RuleCrops[i].crop
        /\ final = SubSeq(combined, 1, Min(5, Len(combined)))

\* A model and a rule proposed the same crop and both entries were returned.
C11_Witness ==
    /\ Fused
    /\ \E i, j \in Indices(final) :
          /\ final[i].source = "Agronomic Rules"
          /\ final[j].source = MLSource("decision_tree_crop")
          /\ final[i].crop = final[j].crop

\* C12: a successful result holds soil_analysis, recommendations,
\* application_guidelines and expected_outcomes, and its soil_analysis holds
\* exactly nutrient_status, ph_status, fertility_score and overall_condition.
C12_ResponseShape ==
    Returned =>
        /\ {"soil_analysis", "recommendations", "application_guidelines", "expected_outcomes"}
              \subseteq DOMAIN result
        /\ DOMAIN result.soil_analysis =
              {"nutrient_status", "ph_status", "fertility_score", "overall_condition"}

\* A successful result for a sample outside the documented ranges.
C12_Witness ==
    /\ Returned
    /\ soil_data \in OutOfRangeSamples
    /\ "soil_analysis" \in DOMAIN result

InferenceRequested == pc \in {"rules", "combine", "explain", "done", "failed"} /\ processed # NoValue

\* C15: a request whose inference needs a model artifact that is absent
\* fails with a model-not-found error, and nothing model-derived is produced.
C15_AbsentModelFails ==
    (InferenceRequested /\ \E m \in Range(crop_models) : m \notin files) =>
        /\ pc = "failed"
        /\ result = [error |-> "Model not found"]

\* C16: get_recommendations never returns a successful result for a request
\* in which a model load or a model inference failed.
C16_ModelFailureSurfaced ==
    Returned => "ML recommendation failed" \notin log

Started == pc \in {"ml", "rules", "combine", "explain", "done", "failed"}

ClaimBounds ==
    <<<<0, 100>>, <<0, 80>>, <<0, 80>>, <<10, 40>>, <<30, 100>>, <<16, 36>>, <<50, 300>>>>

Normalized == pc \in {"ml", "rules", "combine", "explain", "done"}

\* C18: without a persisted scaler each feature becomes
\* clamp((value - min) / (max - min), 0, 1) with the claim's bounds, every
\* component lies in [0,1], and the fallback is used only when the scaler
\* artifact is absent.
C18_FallbackNormalization ==
    Normalized =>
        /\ processed.kind = "simple" <=> "feature_scaler" \notin files
        /\ processed.kind = "simple" =>
              \A i \in 1..7 :
                 LET v == soil_data[feature_names[i]]
                     lo == ClaimBounds[i][1]
                     hi == ClaimBounds[i][2]
                     x == processed.features[i]
                 IN  /\ x.den = hi - lo
                     /\ 0 <= x.num /\ x.num <= x.den
                     /\ v <= lo => x.num = 0
                     /\ v >= hi => x.num = x.den
                     /\ (lo < v /\ v < hi) => x.num = v - lo

\* The fallback clamped a sample lying above every bound.
C18_Witness ==
    /\ Normalized
    /\ processed.kind = "simple"
    /\ soil_data.N > 100
    /\ processed.features[1].num = processed.features[1].den

----------------------------------------------------------------------------
(* simple_app.py: global model and scaler, load_or_train_model, the train  *)
(* request and the predict request. Flask serves each request in its own   *)
(* thread, so one train_model request and one predict_crop request         *)
(* interleave at the statements that read or write the globals or the      *)
(* artifact files. An object is [run |-> r, fitted |-> b]: the training run *)
(* that created it (0: a run of an earlier process) and whether fit has    *)
(* completed on it.                                                        *)

pipeVars == <<pc, files, soil_data, processed, ml_recs, rule_recs, combined, final, result,
              fn_out, log>>

\* No get_recommendations request exists.
PipeOff ==
    /\ pc = "off"
    /\ files = {}
    /\ soil_data = NoValue
    /\ processed = NoValue
    /\ ml_recs = NoValue
    /\ rule_recs = NoValue
    /\ combined = NoValue
    /\ final = NoValue
    /\ result = NoValue
    /\ fn_out = NoValue
    /\ log = {}

\* Number of training runs one exploration carries out.
MaxRuns == 2

model_path == "crop_model.pkl"

scaler_path == "crop_scaler.pkl"

\* What a file holds: nothing, bytes joblib.load cannot read, or the object
\* dumped by a training run.
FileStates == {Absent, Corrupt, [run |-> 0]}

Exists(path) == disk[path] # Absent

Loadable(path) == "run" \in DOMAIN disk[path]

Loaded(path) == [run |-> disk[path].run, fitted |-> TRUE]

\* JSON bodies sent to POST /api/predict: a field is a number, a string that
\* is not a number ("text"), null, or missing from the object.
Numeric == [f \in Range(feature_names) |-> "number"]

AppPayloads ==
    {Numeric,
     [f \in Range(feature_names) \ {"rainfall"} |-> "number"],
     [Numeric EXCEPT !["N"] = "text"],
     [Numeric EXCEPT !["ph"] = "null"]}

RECURSIVE FirstMissing(_, _)
\* for feature in feature_names: if feature not in data: the first such
\* feature, or "" when every feature is in data.
FirstMissing(data, i) ==
    IF i > Len(feature_names) THEN ""
    ELSE IF feature_names[i] \notin DOMAIN data THEN feature_names[i]
    ELSE FirstMissing(data, i + 1)

RECURSIVE FirstNotNumber(_, _)
\* float(data[f]) evaluated in feature_names order: the first field on which
\* float raises, or "" when every conversion succeeds.
FirstNotNumber(data, i) ==
    IF i > Len(feature_names) THEN ""
    ELSE IF data[feature_names[i]] # "number" THEN feature_names[i]
    ELSE FirstNotNumber(data, i + 1)

predVars == <<ppc, payload, seen_scaler, seen_model, predict_resp>>

\* Lines 29-32 have run and line 110 is about to call load_or_train_model.
InitApp ==
    /\ PipeOff
    /\ http = NoValue
    /\ model = NoValue
    /\ scaler = NoValue
    /\ model_info = NoValue
    /\ disk \in [{model_path, scaler_path} -> FileStates]
    /\ tpc = "check"
    /\ caller = "startup"
    /\ call_run = 0
    /\ runs = 0
    /\ train_resp = NoValue
    /\ ppc = "idle"
    /\ payload = NoValue
    /\ seen_scaler = NoValue
    /\ seen_model = NoValue
    /\ predict_resp = NoValue
    /\ at_call = [model |-> model, scaler |-> scaler, model_info |-> model_info, disk |-> disk]

\* POST /api/model/train: train_model calls load_or_train_model.
TrainRequest ==
    /\ tpc = "idle"
    /\ runs < MaxRuns
    /\ caller' = "train_model"
    /\ at_call' = [model |-> model, scaler |-> scaler, model_info |-> model_info, disk |-> disk]
    /\ call_run' = 0
    /\ train_resp' = NoValue
    /\ tpc' = "check"
    /\ UNCHANGED <<model, scaler, model_info, disk, runs>>
    /\ UNCHANGED <<predVars, http, pipeVars>>

\* if os.path.exists(model_path) and os.path.exists(scaler_path):
CheckArtifacts ==
    /\ tpc = "check"
    /\ tpc' = IF Exists(model_path) /\ Exists(scaler_path) THEN "load_model" ELSE "read_csv"
    /\ UNCHANGED <<model, scaler, model_info, disk, caller, at_call, call_run, runs, train_resp>>
    /\ UNCHANGED <<predVars, http, pipeVars>>

\* model = joblib.load(model_path); the bare except falls through to training.
LoadModel ==
    /\ tpc = "load_model"
    /\ IF Loadable(model_path)
       THEN model' = Loaded(model_path) /\ tpc' = "load_scaler"
       ELSE UNCHANGED model /\ tpc' = "read_csv"
    /\ UNCHANGED <<scaler, model_info, disk, caller, at_call, call_run, runs, train_resp>>
    /\ UNCHANGED <<predVars, http, pipeVars>>

\* scaler = joblib.load(scaler_path); return True
LoadScaler ==
    /\ tpc = "load_scaler"
    /\ IF Loadable(scaler_path)
       THEN scaler' = Loaded(scaler_path) /\ tpc' = "return_true"
       ELSE UNCHANGED scaler /\ tpc' = "read_csv"
    /\ UNCHANGED <<model, model_info, disk, caller, at_call, call_run, runs, train_resp>>
    /\ UNCHANGED <<predVars, http, pipeVars>>

\* df = pd.read_csv(...), feature and label selection, train_test_split; any
\* exception is caught at line 105.
ReadCsv ==
    /\ tpc = "read_csv"
    /\ tpc' \in {"new_scaler", "return_false"}
    /\ UNCHANGED <<model, scaler, model_info, disk, caller, at_call, call_run, runs, train_resp>>
    /\ UNCHANGED <<predVars, http, pipeVars>>

\* Variant that builds the scaler in a local variable.
NewScaler_local ==
    /\ tpc = "new_scaler"
    /\ runs' = runs + 1
    /\ call_run' = runs + 1
    /\ tpc' = "fit_scaler"
    /\ UNCHANGED <<model, scaler, model_info, disk, caller, at_call, train_resp>>
    /\ UNCHANGED <<predVars, http, pipeVars>>

\* scaler = StandardScaler(): the global refers to a new, unfitted object.
NewScaler ==
    /\ tpc = "new_scaler"
    /\ runs' = runs + 1
    /\ call_run' = runs + 1
    /\ scaler' = [run |-> runs + 1, fitted |-> FALSE]
    /\ tpc' = "fit_scaler"
    /\ UNCHANGED <<model, model_info, disk, caller, at_call, train_resp>>
    /\ UNCHANGED <<predVars, http, pipeVars>>

\* X_train_scaled = scaler.fit_transform(X_train); scaler.transform(X_test)
FitScaler ==
    /\ tpc = "fit_scaler"
    /\ \/ scaler' = [run |-> call_run, fitted |-> TRUE] /\ tpc' = "new_model"
       \/ UNCHANGED scaler /\ tpc' = "return_false"
    /\ UNCHANGED <<model, model_info, disk, caller, at_call, call_run, runs, train_resp>>
    /\ UNCHANGED <<predVars, http, pipeVars>>

\* model = RandomForestClassifier(...): the global refers to a new, unfitted
\* object.
NewModel ==
    /\ tpc = "new_model"
    /\ model' = [run |-> call_run, fitted |-> FALSE]
    /\ tpc' = "fit_model"
    /\ UNCHANGED <<scaler, model_info, disk, caller, at_call, call_run, runs, train_resp>>
    /\ UNCHANGED <<predVars, http, pipeVars>>

\* model.fit(X_train_scaled, y_train); model.predict(X_test_scaled)
FitModel ==
    /\ tpc = "fit_model"
    /\ \/ model' = [run |-> call_run, fitted |-> TRUE] /\ tpc' = "dump_model"
       \/ UNCHANGED model /\ tpc' = "return_false"
    /\ UNCHANGED <<scaler, model_info, disk, caller, at_call, call_run, runs, train_resp>>
    /\ UNCHANGED <<predVars, http, pipeVars>>

\* joblib.dump(model, model_path): the file is written, or the write fails
\* before it opened the file or part-way through it.
DumpModel ==
    /\ tpc = "dump_model"
    /\ \/ disk' = [disk EXCEPT ![model_path] = [run |-> call_run]] /\ tpc' = "dump_scaler"
       \/ disk' = [disk EXCEPT ![model_path] = Corrupt] /\ tpc' = "return_false"
       \/ UNCHANGED disk /\ tpc' = "return_false"
    /\ UNCHANGED <<model, scaler, model_info, caller, at_call, call_run, runs, train_resp>>
    /\ UNCHANGED <<predVars, http, pipeVars>>

\* joblib.dump(scaler, scaler_path)
DumpScaler ==
    /\ tpc = "dump_scaler"
    /\ \/ disk' = [disk EXCEPT ![scaler_path] = [run |-> call_run]] /\ tpc' = "set_info"
       \/ disk' = [disk EXCEPT ![scaler_path] = Corrupt] /\ tpc' = "return_false"
       \/ UNCHANGED disk /\ tpc' = "return_false"
    /\ UNCHANGED <<model, scaler, model_info, caller, at_call, call_run, runs, train_resp>>
    /\ UNCHANGED <<predVars, http, pipeVars>>

\* model_info = {...}; return True
SetModelInfo ==
    /\ tpc = "set_info"
    /\ model_info' = [run |-> call_run]
    /\ tpc' = "return_true"
    /\ UNCHANGED <<model, scaler, disk, caller, at_call, call_run, runs, train_resp>>
    /\ UNCHANGED <<predVars, http, pipeVars>>

\* The call returns: line 110 drops the value, train_model answers with it.
ReturnFromLoadOrTrain ==
    /\ tpc \in {"return_true", "return_false"}
    /\ train_resp' =
          IF caller = "startup" THEN train_resp
          ELSE IF tpc = "return_true"
          THEN [status |-> 200, success |-> TRUE, message |-> "Model trained successfully",
                info |-> model_info]
          ELSE [status |-> 500, success |-> FALSE, error |-> "Failed to train model"]
    /\ tpc' = "idle"
    /\ UNCHANGED <<model, scaler, model_info, disk, caller, at_call, call_run, runs>>
    /\ UNCHANGED <<predVars, http, pipeVars>>

\* app.run serves requests once the import, and with it line 110, has finished.
Serving == ~(caller = "startup" /\ tpc # "idle")

trainVars == <<model, scaler, model_info, disk, tpc, caller, call_run, runs, train_resp,
               at_call>>

\* POST /api/predict arrives.
PredictRequest(data) ==
    /\ Serving
    /\ ppc = "idle"
    /\ payload' = data
    /\ seen_scaler' = NoValue
    /\ seen_model' = NoValue
    /\ predict_resp' = NoValue
    /\ ppc' = "check"
    /\ UNCHANGED <<trainVars, http, pipeVars>>

\* if model is None or scaler is None: return 500
CheckLoaded ==
    /\ ppc = "check"
    /\ IF model = NoValue \/ scaler = NoValue
       THEN /\ predict_resp' = [status |-> 500,
                                error |-> "Model not loaded. Please train the model first."]
            /\ ppc' = "idle"
       ELSE /\ UNCHANGED predict_resp
            /\ ppc' = "parse"
    /\ UNCHANGED <<payload, seen_scaler, seen_model>>
    /\ UNCHANGED <<trainVars, http, pipeVars>>

\* The missing-field loop, then the seven float() conversions: float of a
\* string that is no number raises ValueError (400), float(None) raises
\* TypeError (500).
ParsePayload ==
    /\ ppc = "parse"
    /\ IF FirstMissing(payload, 1) # ""
       THEN /\ predict_resp' = [status |-> 400, error |-> "Missing required field",
                                field |-> FirstMissing(payload, 1)]
            /\ ppc' = "idle"
       ELSE IF FirstNotNumber(payload, 1) # ""
       THEN /\ predict_resp' =
                  IF payload[FirstNotNumber(payload, 1)] = "text"
                  THEN [status |-> 400, error |-> "Invalid input values"]
                  ELSE [status |-> 500, error |-> "Prediction failed"]
            /\ ppc' = "idle"
       ELSE /\ UNCHANGED predict_resp
            /\ ppc' = "transform"
    /\ UNCHANGED <<payload, seen_scaler, seen_model>>
    /\ UNCHANGED <<trainVars, http, pipeVars>>

\* input_scaled = scaler.transform(input_df) on the object the global refers
\* to now; an unfitted StandardScaler raises NotFittedError, a ValueError.
Transform ==
    /\ ppc = "transform"
    /\ seen_scaler' = scaler
    /\ IF scaler.fitted
       THEN /\ UNCHANGED predict_resp
            /\ ppc' = "predict"
       ELSE /\ predict_resp' = [status |-> 400, error |-> "Invalid input values"]
            /\ ppc' = "idle"
    /\ UNCHANGED <<payload, seen_model>>
    /\ UNCHANGED <<trainVars, http, pipeVars>>

\* model.predict, model.predict_proba, model.classes_ and
\* model.feature_importances_ on the object the global refers to now, then
\* the response.
Predict ==
    /\ ppc = "predict"
    /\ seen_model' = model
    /\ predict_resp' =
          IF model.fitted
          THEN [status |-> 200, success |-> TRUE]
          ELSE [status |-> 400, error |-> "Invalid input values"]
    /\ ppc' = "idle"
    /\ UNCHANGED <<payload, seen_scaler>>
    /\ UNCHANGED <<trainVars, http, pipeVars>>

NextApp ==
    \/ TrainRequest
    \/ CheckArtifacts
    \/ LoadModel
    \/ LoadScaler
    \/ ReadCsv
    \/ NewScaler
    \/ FitScaler
    \/ NewModel
    \/ FitModel
    \/ DumpModel
    \/ DumpScaler
    \/ SetModelInfo
    \/ ReturnFromLoadOrTrain
    \/ \E data \in AppPayloads : PredictRequest(data)
    \/ CheckLoaded
    \/ ParsePayload
    \/ Transform
    \/ Predict

SpecApp == InitApp /\ [][NextApp]_vars

----------------------------------------------------------------------------
(* Properties of simple_app (specification SpecApp)                        *)

PredictAnswered == predict_resp # NoValue

\* C13: a predict request whose body lacks a required field is answered 400
\* with the name of a missing field, whatever the state of the service, and
\* neither the scaler nor the model is invoked for it.
C13_MissingFieldRejected ==
    (PredictAnswered /\ FirstMissing(payload, 1) # "") =>
        /\ predict_resp.status = 400
        /\ "field" \in DOMAIN predict_resp
        /\ predict_resp.field \notin DOMAIN payload
        /\ seen_scaler = NoValue
        /\ seen_model = NoValue

\* Both objects exist, are fitted, and were created by the same training run.
SameCompletedRun(m, s) ==
    /\ m # NoValue
    /\ s # NoValue
    /\ m.run = s.run
    /\ m.fitted
    /\ s.fitted

\* C19: between `scaler = StandardScaler()` and the end of model.fit the
\* global model and scaler are never a fitted pair of one training run, and
\* between the two joblib.dump calls the two artifact files differ; no lock
\* keeps a predict request from reading the globals at these positions.
C19_MixedBetweenRetrainSteps ==
    /\ tpc \in {"fit_scaler", "new_model", "fit_model"} => ~SameCompletedRun(model, scaler)
    /\ tpc = "dump_scaler" => disk[model_path] # disk[scaler_path]
    /\ (Serving /\ ppc = "transform") => ENABLED Transform
    /\ (Serving /\ ppc = "predict") => ENABLED Predict

\* A predict request answered 200 after it scaled the input with the scaler
\* of one training run and classified it with the model of another one.
C19_Witness ==
    /\ PredictAnswered
    /\ predict_resp.status = 200
    /\ seen_scaler.run # seen_model.run

TrainSucceeded == train_resp # NoValue /\ train_resp.success

\* C20: when a train request reports success, the global model and scaler,
\* the two artifact files and model_info are those of a training run carried
\* out during that request.
C20_SuccessMeansTrained ==
    TrainSucceeded =>
        /\ call_run # 0
        /\ model = [run |-> call_run, fitted |-> TRUE]
        /\ scaler = [run |-> call_run, fitted |-> TRUE]
        /\ disk[model_path] = [run |-> call_run]
        /\ disk[scaler_path] = [run |-> call_run]
        /\ model_info = [run |-> call_run]

----------------------------------------------------------------------------
(* app/api/routes.py: POST /recommend and POST /crop-prediction. A handler *)
(* runs from the request to its response in one step; the body is given by *)
(* the kind of each field, as for simple_app.                              *)

FieldKinds == {"number", "text", "null", "missing"}

\* Bodies in which N, ph and rainfall vary and the other fields are numbers.
HttpPayloads ==
    { [f \in {g \in Range(feature_names) : g \notin {"N", "ph", "rainfall"}
                 \/ (g = "N" /\ n # "missing")
                 \/ (g = "ph" /\ h # "missing")
                 \/ (g = "rainfall" /\ r # "missing")}
         |-> IF f = "N" THEN n ELSE IF f = "ph" THEN h ELSE IF f = "rainfall" THEN r
             ELSE "number"] : n \in FieldKinds, h \in FieldKinds, r \in FieldKinds }

\* validate_soil_data(data): (False, "Missing required field: f") or (True, "Valid")
validate_soil_data(data) ==
    IF FirstMissing(data, 1) # ""
    THEN [is_valid |-> FALSE, message |-> "Missing required field", field |-> FirstMissing(data, 1)]
    ELSE [is_valid |-> TRUE, message |-> "Valid"]

\* The Flask application of app/ is serving; no request has been answered.
InitHttp ==
    /\ pc = "http"
    /\ files \in SUBSET Artifacts
    /\ soil_data = NoValue
    /\ processed = NoValue
    /\ ml_recs = NoValue
    /\ rule_recs = NoValue
    /\ combined = NoValue
    /\ final = NoValue
    /\ result = NoValue
    /\ fn_out = NoValue
    /\ log = {}
    /\ http = NoValue
    /\ AppOff

\* RecommendationAPI.post: validate_soil_data, then get_recommendations, whose
\* _preprocess_input calls float() on every field and whose exceptions the
\* handler turns into 500.
RecommendationPost(data) ==
    /\ pc = "http"
    /\ \/ /\ ~validate_soil_data(data).is_valid
          /\ http' = [endpoint |-> "/recommend", data |-> data, status |-> 400,
                      error |-> "Missing required field",
                      field |-> validate_soil_data(data).field, core |-> FALSE]
       \/ /\ validate_soil_data(data).is_valid
          /\ FirstNotNumber(data, 1) # ""
          /\ http' = [endpoint |-> "/recommend", data |-> data, status |-> 500,
                      error |-> "Recommendation generation failed: Input preprocessing failed",
                      core |-> TRUE]
       \/ /\ validate_soil_data(data).is_valid
          /\ FirstNotNumber(data, 1) = ""
          /\ "feature_scaler" \in files
          /\ http' = [endpoint |-> "/recommend", data |-> data, status |-> 500,
                      error |-> "Recommendation generation failed: Input preprocessing failed",
                      core |-> TRUE]
       \/ /\ validate_soil_data(data).is_valid
          /\ FirstNotNumber(data, 1) = ""
          /\ http' = [endpoint |-> "/recommend", data |-> data, status |-> 200, core |-> TRUE]
    /\ UNCHANGED <<pipeVars, appVars>>

RECURSIVE FirstRejected(_, _)
\* The loop of CropPredictionAPI.post: per field, in order, the presence test
\* and then the float() test; "" when every field passes both.
FirstRejected(data, i) ==
    IF i > Len(feature_names) THEN ""
    ELSE IF feature_names[i] \notin DOMAIN data THEN feature_names[i]
    ELSE IF data[feature_names[i]] # "number" THEN feature_names[i]
    ELSE FirstRejected(data, i + 1)

\* CropPredictionAPI.post: the validation loop, then
\* ClassificationService().predict_crop(data); the class imported from
\* classification_service.py has no predict_crop, so the call raises
\* AttributeError and the handler answers 500.
CropPredictionPost(data) ==
    /\ pc = "http"
    /\ IF FirstRejected(data, 1) = ""
       THEN http' = [endpoint |-> "/crop-prediction", data |-> data, status |-> 500,
                     error |-> "'ClassificationService' object has no attribute 'predict_crop'",
                     core |-> FALSE]
       ELSE IF FirstRejected(data, 1) \notin DOMAIN data
       THEN http' = [endpoint |-> "/crop-prediction", data |-> data, status |-> 400,
                     error |-> "Missing required field", field |-> FirstRejected(data, 1),
                     core |-> FALSE]
       ELSE http' = [endpoint |-> "/crop-prediction", data |-> data, status |-> 400,
                     error |-> "Invalid value", field |-> FirstRejected(data, 1),
                     core |-> FALSE]
    /\ UNCHANGED <<pipeVars, appVars>>

NextHttp ==
    \/ \E data \in HttpPayloads : RecommendationPost(data)
    \/ \E data \in HttpPayloads : CropPredictionPost(data)

SpecHttp == InitHttp /\ [][NextHttp]_vars

HttpAnswered == http # NoValue

AllPresent(data) == FirstMissing(data, 1) = ""

\* C14: a request whose seven fields are all present and of which at least
\* one is not a number is answered with a 400 validation error, not with a
\* server error.
C14_NonNumericIsValidationError ==
    (HttpAnswered /\ AllPresent(http.data) /\ FirstNotNumber(http.data, 1) # "") =>
        http.status = 400

----------------------------------------------------------------------------
(* The two inference paths called directly: predict_single of              *)
(* classification_service.py and _get_ml_recommendations. A call writes    *)
(* its arguments and its result into fn_out.                               *)

\* Maximum class probabilities a model can answer with, the degenerate
\* all-zero row included.
InferProbaValues == ProbaValues \cup {0}

\* ModelOutcomes with the probabilities of InferProbaValues.
InferOutcomes(model_name, present) ==
    ModelOutcomes(model_name, present)
        \cup (IF model_name \in present
              THEN {[kind |-> "ok", prediction |-> p, has_proba |-> TRUE, max_proba |-> c] :
                      p \in PredictionValues, c \in InferProbaValues}
              ELSE {})

\* 'confidence': float(confidence) if confidence else None, where confidence
\* is None without predict_proba and np.max(proba[0]) with it: a float is
\* [value |-> c], None is NoValue.
PredictSingleConfidence(outcome) ==
    IF outcome.has_proba /\ outcome.max_proba # 0 THEN [value |-> outcome.max_proba] ELSE NoValue

\* predict_single(model_type, 'crop', input_features): every exception,
\* the FileNotFoundError of an absent artifact included, leaves as
\* Exception("Prediction failed: ...").
predict_single(model_type, outcome) ==
    IF outcome.kind \in {"absent", "raise"}
    THEN [error |-> "Prediction failed"]
    ELSE [prediction |-> outcome.prediction,
          confidence |-> PredictSingleConfidence(outcome),
          model_type |-> model_type,
          target |-> "crop"]

model_types == <<"decision_tree", "naive_bayes">>

InitInfer ==
    /\ pc = "infer"
    /\ files \in SUBSET Artifacts
    /\ soil_data = NoValue
    /\ processed = NoValue
    /\ ml_recs = NoValue
    /\ rule_recs = NoValue
    /\ combined = NoValue
    /\ final = NoValue
    /\ result = NoValue
    /\ fn_out = NoValue
    /\ log = {}
    /\ http = NoValue
    /\ AppOff

CallPredictSingle ==
    /\ pc = "infer"
    /\ \E i \in 1..Len(model_types) : \E o \in InferOutcomes(crop_models[i], files) :
          fn_out' = [call |-> "predict_single", outcomes |-> <<o>>,
                     value |-> predict_single(model_types[i], o)]
    /\ pc' = "infer_done"
    /\ UNCHANGED <<files, soil_data, processed, ml_recs, rule_recs, combined, final, result>>
    /\ UNCHANGED <<log, apiVars>>

CallGetML ==
    /\ pc = "infer"
    /\ \E o1 \in InferOutcomes(crop_models[1], files), o2 \in InferOutcomes(crop_models[2], files) :
          /\ fn_out' = [call |-> "_get_ml_recommendations", outcomes |-> <<o1, o2>>,
                        value |-> _get_ml_recommendations(<<o1, o2>>)]
          /\ log' = IF MLRaised(<<o1, o2>>, 1) THEN log \cup {"ML recommendation failed"} ELSE log
    /\ pc' = "infer_done"
    /\ UNCHANGED <<files, soil_data, processed, ml_recs, rule_recs, combined, final, result>>
    /\ UNCHANGED apiVars

NextInfer ==
    \/ CallPredictSingle
    \/ CallGetML

SpecInfer == InitInfer /\ [][NextInfer]_vars

----------------------------------------------------------------------------
(* Properties of the inference paths (specification SpecInfer)             *)

InferAnswered == pc = "infer_done"

\* C23: in both inference paths the confidence of a model answer is the
\* maximum class probability when the model exposes class probabilities and
\* a fixed placeholder otherwise (0.8 in _get_ml_recommendations, None in
\* predict_single); a maximum probability of 0 is reported as 0.
C23_ConfidenceIsMaxProbability ==
    InferAnswered =>
        /\ (fn_out.call = "predict_single" /\ fn_out.outcomes[1].kind = "ok") =>
              fn_out.value.confidence =
                 IF fn_out.outcomes[1].has_proba
                 THEN [value |-> fn_out.outcomes[1].max_proba] ELSE NoValue
        /\ fn_out.call = "_get_ml_recommendations" =>
              \A k \in Indices(fn_out.value) : \E i \in Indices(crop_models) :
                 /\ crop_models[i] = fn_out.value[k].model
                 /\ fn_out.outcomes[i].kind = "ok"
                 /\ fn_out.value[k].confidence =
                       IF fn_out.outcomes[i].has_proba
                       THEN fn_out.outcomes[i].max_proba ELSE DefaultConfidence

----------------------------------------------------------------------------
(* The three programs side by side: a behaviour is one of                  *)
(* get_recommendations requests, of direct inference calls, or of          *)
(* simple_app.                                                             *)

InitService == Init \/ InitInfer \/ InitApp

NextService == Next \/ NextInfer \/ NextApp

SpecService == InitService /\ [][NextService]_vars

\* A step of get_recommendations, from its call to its return or raise.
PipelineStep == pc \in {"preprocess", "ml", "rules", "combine", "explain"} /\ pc' # pc

\* A direct call of predict_single or _get_ml_recommendations.
InferStep == pc = "infer" /\ pc' # pc

\* A step of a predict_crop request of simple_app.
PredictStep == ppc' # ppc

\* C21: inference is read-only. No step of get_recommendations, of
\* predict_single, of _get_ml_recommendations or of predict_crop changes the
\* set of artifacts, the artifact files of simple_app or its global model
\* and scaler, and get_recommendations leaves the submitted sample as it is,
\* whether the step succeeds or fails.
C21_InferenceIsReadOnly ==
    [][ /\ (PipelineStep \/ InferStep) => files' = files
        /\ PipelineStep => soil_data' = soil_data
        /\ PredictStep => (model' = model /\ scaler' = scaler /\ disk' = disk) ]_vars

\* A get_recommendations request returned after one model answered and the
\* other one failed.
C21_Witness ==
    /\ Returned
    /\ Len(ml_recs) > 0
    /\ "ML recommendation failed" \in log

----------------------------------------------------------------------------
(* Further properties of get_recommendations (specification Spec)          *)

SameNutrientsAndPh(s, t) ==
    /\ {"N", "P", "K", "ph"} \subseteq DOMAIN s
    /\ s.N = t.N
    /\ s.P = t.P
    /\ s.K = t.K
    /\ s.ph = t.ph

----------------------------------------------------------------------------
(* Further properties of the rule engine (specification SpecFn)            *)

\* C24: the rule engine hands the fuser at most 4 candidates (crop
\* candidates plus N/P/K corrections), because wheat excludes maize and
\* cotton, rice excludes cotton and the N correction, maize excludes the N
\* and K corrections, soybean excludes the P correction and cotton excludes
\* the K correction; so without a model candidate the top-5 truncation
\* removes nothing.
C24_AtMostFourRuleCandidates ==
    RulesEvaluated =>
        /\ Len(CropRulesOut) + Len(NutrientOut) <= 4
        /\ HasCrop("wheat") => ~HasCrop("maize") /\ ~HasCrop("cotton")
        /\ HasCrop("rice") => ~HasCrop("cotton") /\ ~HasNutrient("Nitrogen")
        /\ HasCrop("maize") => ~HasNutrient("Nitrogen") /\ ~HasNutrient("Potassium")
        /\ HasCrop("soybean") => ~HasNutrient("Phosphorus")
        /\ HasCrop("cotton") => ~HasNutrient("Potassium")
        /\ Len(_combine_recommendations(<<>>, fn_out.value)) =
              Len(CropRulesOut) + Len(NutrientOut)

\* The rule engine produced 4 candidates: three crops and one correction.
C24_Witness ==
    /\ RulesEvaluated
    /\ Len(CropRulesOut) = 3
    /\ Len(NutrientOut) = 1

----------------------------------------------------------------------------
(* Further properties of the fuser (specification Spec)                    *)

AllCandidates == Candidates(ml_recs, rule_recs)

HighCandidates == {i \in Indices(AllCandidates) : IsHigh(AllCandidates[i])}

\* C25: the top-5 truncation never removes a High candidate. The High
\* candidates are the model candidates with confidence > 0.8, the rice and
\* maize rule candidates and the Nitrogen correction; there are at most 4 of
\* them and none is among the candidates left out.
C25_HighCandidatesSurvive ==
    Fused =>
        /\ \A i \in Indices(AllCandidates) :
              IsHigh(AllCandidates[i]) <=>
                 \/ /\ AllCandidates[i].type = "crop_fertilizer"
                    /\ AllCandidates[i].confidence > 80
                 \/ /\ AllCandidates[i].type = "nutrient_correction"
                    /\ AllCandidates[i].nutrient = "Nitrogen"
        /\ Cardinality(HighCandidates) <= 4
        /\ \A x \in BagToSet(LeftOut) : ~IsHigh(x)
        /\ \A i \in HighCandidates : \E j \in Indices(final) : final[j] = AllCandidates[i]

\* Six candidates were fused, three of them High, and one was cut off.
C25_Witness ==
    /\ Fused
    /\ Len(AllCandidates) = 6
    /\ Cardinality(HighCandidates) = 3
    /\ Len(final) = 5

----------------------------------------------------------------------------
(* The soil analysis against the rule engine (specification SpecFn)        *)

Analysis == _analyze_soil_condition(soil_data)

HasPhCorrection(correction) == \E i \in Indices(PhOut) : PhOut[i].correction = correction

\* C26: the soil analysis and the rule engine agree on every sample: a
\* nutrient is reported 'Low' exactly when its deficiency correction is
\* emitted, and ph_status is 'Acidic' exactly with a lime_application
\* correction, 'Alkaline' exactly with a sulfur_application correction and
\* 'Neutral' exactly with no pH correction.
C26_AnalysisAgreesWithRules ==
    RulesEvaluated =>
        /\ Analysis.nutrient_status.nitrogen = "Low" <=> HasNutrient("Nitrogen")
        /\ Analysis.nutrient_status.phosphorus = "Low" <=> HasNutrient("Phosphorus")
        /\ Analysis.nutrient_status.potassium = "Low" <=> HasNutrient("Potassium")
        /\ Analysis.ph_status = "Acidic" <=> HasPhCorrection("lime_application")
        /\ Analysis.ph_status = "Alkaline" <=> HasPhCorrection("sulfur_application")
        /\ Analysis.ph_status = "Neutral" <=> Len(PhOut) = 0

\* Two nutrients are Low and corrected, the third is neither, and the soil
\* is alkaline and gets sulfur.
C26_Witness ==
    /\ RulesEvaluated
    /\ Analysis.nutrient_status.nitrogen = "Low" /\ HasNutrient("Nitrogen")
    /\ Analysis.nutrient_status.phosphorus = "Low" /\ HasNutrient("Phosphorus")
    /\ Analysis.nutrient_status.potassium = "Medium" /\ ~HasNutrient("Potassium")
    /\ Analysis.ph_status = "Alkaline" /\ HasPhCorrection("sulfur_application")

----------------------------------------------------------------------------
(* Further properties of the soil analysis (specification SpecFn)          *)

Analyzed == pc = "fn_done" /\ fn_out.call = "analyze"

Excellent == fn_out.value.overall_condition = "Excellent"

\* The findings of the analysis that come with a correction of the rule
\* engine: a nutrient reported 'Low', a ph_status other than 'Neutral'.
Findings ==
    {n \in {"nitrogen", "phosphorus", "potassium"} : fn_out.value.nutrient_status[n] = "Low"}
        \cup (IF fn_out.value.ph_status # "Neutral" THEN {"ph"} ELSE {})

\* C27 as claimed: an 'Excellent' analysis reports no nutrient 'Low' and a
\* 'Neutral' ph_status.
C27_ExcellentMeansNoFinding ==
    (Analyzed /\ Excellent) => Findings = {}

\* C27 as amended: an 'Excellent' analysis reports at most one finding, a
\* single nutrient 'Low' or a ph_status other than 'Neutral'.
C27_ExcellentAtMostOneFinding ==
    (Analyzed /\ Excellent) => Cardinality(Findings) <= 1

\* An 'Excellent' analysis that reports nitrogen 'Low'.
C27_Witness ==
    /\ Analyzed
    /\ Excellent
    /\ Findings = {"nitrogen"}

----------------------------------------------------------------------------
(* Emptiness of the recommendations list (specification Spec)              *)

\* The documented range of each of the seven fields (pH 4 to 9 in quarter
\* units).
InAllDocumentedRanges(soil) ==
    \A i \in 1..7 :
       /\ feature_names[i] \in DOMAIN soil
       /\ ClaimBounds[i][1] <= soil[feature_names[i]]
       /\ soil[feature_names[i]] <= ClaimBounds[i][2]

NoModelArtifact == files \cap Range(crop_models) = {}

\* Some crop rule or some deficiency check matches the sample.
SomeRuleMatches(soil) ==
    \/ RicePredicate(soil)
    \/ WheatPredicate(soil)
    \/ MaizePredicate(soil)
    \/ SoybeanPredicate(soil)
    \/ CottonPredicate(soil)
    \/ soil.N < 30
    \/ soil.P < 20
    \/ soil.K < 25

\* C28 as claimed: for a sample with all seven fields in their documented
\* ranges the returned recommendations list is not empty, also without any
\* model artifact.
C28_RecommendationsNonEmpty ==
    (Returned /\ InAllDocumentedRanges(soil_data)) => Len(result.recommendations) > 0

\* C28 as amended: the returned recommendations list is not empty exactly
\* when a model answered, a crop rule matched, or N < 30, P < 20 or K < 25;
\* without a model artifact it is empty for a sample that matches no rule.
C28_NonEmptyExactlyWhenMatched ==
    Returned =>
        /\ Len(result.recommendations) > 0 <=> (Len(ml_recs) > 0 \/ SomeRuleMatches(soil_data))
        /\ (NoModelArtifact /\ ~SomeRuleMatches(soil_data)) => result.recommendations = <<>>

\* Without any model artifact, a sample in the documented ranges got
\* recommendations from the deficiency checks alone.
C28_Witness ==
    /\ Returned
    /\ NoModelArtifact
    /\ InAllDocumentedRanges(soil_data)
    /\ rule_recs[1].crop_recommendations = <<>>
    /\ Len(result.recommendations) > 0

----------------------------------------------------------------------------
(* Further properties of simple_app (specification SpecApp)                *)

\* health_check(): 'model_loaded': model is not None
health_check == [status |-> "healthy", model_loaded |-> model # NoValue]

\* No load_or_train_model call is running.
Quiescent == tpc = "idle"

\* C29: between calls of load_or_train_model the global model and scaler
\* are both unset, or both set to fitted objects of one training run; so
\* when health_check reports model_loaded, predict_crop does not take its
\* 'Model not loaded' branch.
C29_ModelAndScalerTogether ==
    Quiescent =>
        /\ (model = NoValue /\ scaler = NoValue) \/ SameCompletedRun(model, scaler)
        /\ health_check.model_loaded => ~(model = NoValue \/ scaler = NoValue)

\* C30: a call of load_or_train_model that returns False leaves the global
\* model, the global scaler, model_info and the two artifact files as the
\* call found them.
C30_FailureLeavesStateUnchanged ==
    tpc = "return_false" =>
        /\ model = at_call.model
        /\ scaler = at_call.scaler
        /\ model_info = at_call.model_info
        /\ disk = at_call.disk

====
